---- MODULE Spec2Model ----
(***************************************************************************)
(* Model of the LaunchDarkly stale-flag report (main.go).                  *)
(*                                                                         *)
(* Instants are milliseconds since the Unix epoch and durations are        *)
(* milliseconds.  A time.Time value is a record [isZero, ms]: isZero is    *)
(* what Time.IsZero reports (the year-1 instant, which is also what a      *)
(* missing JSON timestamp decodes to), ms is the instant otherwise.  The   *)
(* clock `now` advances while a request is awaited; the local work (loops, *)
(* filter, sort, render) takes no measurable time at this resolution.      *)
(***************************************************************************)
EXTENDS Integers, Sequences, FiniteSets, TLC

(* ---------------- bounds of the model ---------------- *)

\* most flag records one run accumulates
MaxFlags == 2
\* duration of one answered HTTP round trip
RoundTrip == 45000
\* reading of the wall clock when main starts
StartTime == 1000000

(* ---------------- program constants ---------------- *)

host == "https://app.launchdarkly.com"
\* -project and -env, at their defaults
project == "default"
env == "production"
\* http.Client{Timeout: time.Minute}
Timeout == 60000
\* context.WithTimeout(context.Background(), 5*time.Minute)
Deadline == 300000
\* the divisor of item.CreationDate/1000 and item.CreationDate%1000
MsPerSec == 1000
\* the factor of item.CreationDate%1000*1000000
NsPerMs == 1000000

Second == 1000
Minute == 60 * Second
Hour == 60 * Minute
Day == 24 * Hour

firstPage(p, e) ==
    "/api/v2/flags/" \o p \o "?limit=50&env=" \o e \o "&sort=creationDate&filter=state%3Alive"

queryUrl(p) == "/api/v2/projects/" \o p \o "/flag-statuses/queries"

(* ---------------- time.Time ---------------- *)

\* the zero time.Time: what `var t time.Time` and a missing map entry hold
ZeroTime == [isZero |-> TRUE, ms |-> 0]

\* Go's integer division and remainder truncate toward zero
GoDiv(a, b) == IF a >= 0 THEN a \div b ELSE -((-a) \div b)
GoMod(a, b) == a - b * GoDiv(a, b)

\* time.Unix(sec, nsec): the instant sec seconds and nsec nanoseconds after
\* the epoch.  No input of the model is the year-1 instant, so the result is
\* never the zero Time.
TimeUnix(sec, nsec) == [isZero |-> FALSE, ms |-> sec * MsPerSec + nsec \div NsPerMs]

\* the conversion GetFlags applies to an epoch-millisecond integer
FromMillis(v) == TimeUnix(GoDiv(v, MsPerSec), GoMod(v, MsPerSec) * NsPerMs)

\* Time.Unix(): whole seconds since the epoch, rounded down
UnixSeconds(t) == t.ms \div MsPerSec

\* time.Since(t) read at clock value clk
Since(t, clk) == clk - t.ms

(* ---------------- Flag and its methods ---------------- *)

CreationDateMoreThan(f, value, clk) ==
    f.CreationDate.isZero \/ Since(f.CreationDate, clk) > value

LastModifiedMoreThan(f, value, clk) ==
    f.LastModified.isZero \/ Since(f.LastModified, clk) > value

LastRequestedMoreThan_AtLeast(f, value, clk) ==
    f.LastRequested.isZero \/ Since(f.LastRequested, clk) >= value

LastRequestedMoreThan(f, value, clk) ==
    f.LastRequested.isZero \/ Since(f.LastRequested, clk) > value

\* a > n*unit for a duration a, without forming n*unit
Exceeds(a, n, unit) == a \div unit > n \/ (a \div unit = n /\ a % unit > 0)

\* fmt.Sprintf("%.1f", a/unit), a >= 0
OneDecimal(a, unit) ==
    LET tenths == (a * 10 + unit \div 2) \div unit
    IN  ToString(tenths \div 10) \o "." \o ToString(tenths % 10)

\* fmt.Sprintf("%.0f", a/unit), a >= 0
NoDecimal(a, unit) == ToString((a + unit \div 2) \div unit)

ago(a) ==
    CASE Exceeds(a, 365, Day) -> OneDecimal(a, 365 * Day) \o " years ago"
      [] Exceeds(a, 30, Day) -> OneDecimal(a, 30 * Day) \o " months ago"
      [] a > Day -> OneDecimal(a, Day) \o " days ago"
      [] a > Hour -> OneDecimal(a, Hour) \o " hours ago"
      [] a > Minute -> OneDecimal(a, Minute) \o " minutes ago"
      [] OTHER -> NoDecimal(a, Second) \o " seconds ago"

CreationDateAgo(f, clk) ==
    IF f.CreationDate.isZero THEN "never" ELSE ago(Since(f.CreationDate, clk))

LastModifiedAgo(f, clk) ==
    IF f.LastModified.isZero THEN "never" ELSE ago(Since(f.LastModified, clk))

LastRequestedAgo(f, clk) ==
    IF f.LastRequested.isZero THEN "never" ELSE ago(Since(f.LastRequested, clk))

GetStatus(f, threshold, clk) ==
    IF LastRequestedMoreThan(f, threshold, clk) THEN "inactive" ELSE "inuse"

GetTemporary(f) == IF f.Temporary THEN "temporary" ELSE "permanent"

(* ---------------- what the server may answer ---------------- *)

\* the items a GET page is drawn from: key, _maintainer.email, temporary,
\* creationDate (epoch ms) and the environments map (name -> lastModified)
ItemUniverse ==
    { [key |-> "k1", email |-> "", temporary |-> TRUE, creationDate |-> 100200,
       environments |-> [e \in {"production"} |-> 100000]],
      [key |-> "k2", email |-> "a@x.io", temporary |-> TRUE, creationDate |-> 100700,
       environments |-> [e \in {"production"} |-> 100000]],
      [key |-> "k3", email |-> "a@x.io", temporary |-> TRUE, creationDate |-> 100200,
       environments |-> [e \in {"production", "staging"} |-> 100000]],
      [key |-> "k1", email |-> "b@x.io", temporary |-> FALSE, creationDate |-> 0,
       environments |-> [e \in {"staging"} |-> 900000]],
      [key |-> "k2", email |-> "a@x.io", temporary |-> TRUE, creationDate |-> 100700,
       environments |-> [e \in {"production"} |-> 900000]],
      [key |-> "k3", email |-> "b@x.io", temporary |-> TRUE, creationDate |-> 900000,
       environments |-> [e \in {} |-> 0]] }

\* the next links a page may carry; "" is the absent link
Hrefs == {"", "/api/v2/flags/default?limit=50&offset=50"}

\* the maintainer emails of the model in Go's string order
EmailOrder == <<"", "a@x.io", "b@x.io", "unknown">>

SeqsUpTo(S, n) == UNION {[1..k -> S] : k \in 0..n}

\* the decoded GET bodies with at most n items
GetResponses(n) == [Items : SeqsUpTo(ItemUniverse, n), Next : Hrefs]

\* what the status query may say about one key: no item for it, an item
\* without the environment, or an item with a last-requested instant
StatusAnswers == {"none", "other", "old", "recent"}

StatusItem(k, a) ==
    CASE a = "other" ->
           [key |-> k, environments |-> [e \in {"staging"} |-> FromMillis(1000000)]]
      [] a = "old" ->
           [key |-> k, environments |-> [e \in {"production"} |-> FromMillis(690000)]]
      [] OTHER ->
           [key |-> k, environments |->
              [e \in {"production", "staging"} |->
                 IF e = "production" THEN FromMillis(1000000) ELSE FromMillis(700000)]]

RECURSIVE StatusItems(_, _)
StatusItems(ks, ans) ==
    IF ks = {} THEN <<>>
    ELSE LET k == CHOOSE x \in ks : TRUE
         IN  (IF ans[k] = "none" THEN <<>> ELSE <<StatusItem(k, ans[k])>>)
             \o StatusItems(ks \ {k}, ans)

\* the decoded GET bodies with at most one item
SmallGetResponses == [Items : {<<>>} \cup {<<i>> : i \in ItemUniverse}, Next : Hrefs]

\* the decoded POST bodies that speak about the keys ks
PostResponses(ks) == {[Items |-> StatusItems(ks, ans)] : ans \in [ks -> StatusAnswers]}

\* the command lines the model runs: -threshold, -format, -with-permanent
Configs ==
    { [threshold |-> 400000, format |-> "csv", withPermanent |-> FALSE],
      [threshold |-> 400000, format |-> "csv", withPermanent |-> TRUE],
      [threshold |-> 2000000, format |-> "markdown", withPermanent |-> TRUE],
      [threshold |-> 400000, format |-> "text", withPermanent |-> FALSE] }

(* ---------------- GetFlags helpers ---------------- *)

Keys_DropLast(r) == [i \in 1..(Len(r.Items) - 1) |-> r.Items[i].key]

\* GetResponse.Keys
Keys(r) == [i \in 1..Len(r.Items) |-> r.Items[i].key]

\* PostResponse.LastRequested: the map from key to instant; a later item
\* overwrites an earlier one with the same key
RECURSIVE LastRequestedFrom(_, _, _)
LastRequestedFrom(items, e, m) ==
    IF items = <<>> THEN m
    ELSE LET item == Head(items)
             m2 == IF e \in DOMAIN item.environments
                   THEN [k \in DOMAIN m \cup {item.key} |->
                           IF k = item.key THEN item.environments[e] ELSE m[k]]
                   ELSE m
         IN  LastRequestedFrom(Tail(items), e, m2)

EmptyMap == [k \in {} |-> ZeroTime]

\* every environment of an item is taken for the requested one
RECURSIVE AnyEnvFrom(_, _)
AnyEnvFrom(items, m) ==
    IF items = <<>> THEN m
    ELSE LET item == Head(items)
             m2 == IF DOMAIN item.environments /= {}
                   THEN [k \in DOMAIN m \cup {item.key} |->
                           IF k = item.key
                           THEN item.environments[CHOOSE x \in DOMAIN item.environments : TRUE]
                           ELSE m[k]]
                   ELSE m
         IN  AnyEnvFrom(Tail(items), m2)

LastRequested_AnyEnv(r, e) == AnyEnvFrom(r.Items, EmptyMap)

LastRequested(r, e) == LastRequestedFrom(r.Items, e, EmptyMap)

\* m[k] of a Go map: the zero value when k is absent
MapGet(m, k) == IF k \in DOMAIN m THEN m[k] ELSE ZeroTime

\* item.Environments[env].LastModified: 0 when the environment is absent
EnvLastModified(item, e) ==
    IF e \in DOMAIN item.environments THEN item.environments[e] ELSE 0

BuildFlag_KeepEmptyEmail(item, lastRequested, e) ==
    [ Key |-> item.key,
      MaintainerEmail |-> item.email,
      CreationDate |-> FromMillis(item.creationDate),
      LastModified |-> FromMillis(EnvLastModified(item, e)),
      LastRequested |-> MapGet(lastRequested, item.key),
      Temporary |-> item.temporary ]

\* the Flag record built from one page item
BuildFlag(item, lastRequested, e) ==
    [ Key |-> item.key,
      MaintainerEmail |-> IF item.email = "" THEN "unknown" ELSE item.email,
      CreationDate |-> FromMillis(item.creationDate),
      LastModified |-> FromMillis(EnvLastModified(item, e)),
      LastRequested |-> MapGet(lastRequested, item.key),
      Temporary |-> item.temporary ]

\* the records one loop iteration appends, in page order
BuildFlags(get, post, e) ==
    LET lastRequested == LastRequested(post, e)
    IN  [i \in 1..Len(get.Items) |-> BuildFlag(get.Items[i], lastRequested, e)]

AppendFlags_Prepend(fs, built) == built \o fs

\* flags = append(flags, ...) over the items of one page
AppendFlags(fs, built) == fs \o built

\* the JSON body of the status query
QueryBody(get, e) == [environmentKeys |-> <<e>>, flagKeys |-> Keys(get)]

EmptyGet == [Items |-> <<>>, Next |-> ""]
EmptyPost == [Items |-> <<>>]

(* ---------------- state ---------------- *)

VARIABLES
    pc,            \* where the run is
    cfg,           \* the parsed command line
    now,           \* the wall clock
    url,           \* GetFlags: the loop variable
    nextUrl,       \* GetFlags: nextUrl
    getResponse,   \* GetFlags: the page decoded last
    postResponse,  \* GetFlags: the status answer decoded last
    flags,         \* GetFlags: the accumulated records
    inflight,      \* the requests sent and not yet answered
    err,           \* main: err
    mainFlags,     \* main: flags
    stdout,        \* the lines written to standard output
    trace,         \* history: every request sent, in order
    pages,         \* history: every page decoded, in order
    retrieved      \* history: what GetFlags returned

vars == <<pc, cfg, now, url, nextUrl, getResponse, postResponse, flags, inflight,
          err, mainFlags, stdout, trace, pages, retrieved>>

\* the instant the context of main expires
ctxDeadline == StartTime + Deadline

Min(a, b) == IF a <= b THEN a ELSE b

Init ==
    /\ pc = "get"
    /\ cfg \in Configs
    /\ now = StartTime
    /\ url = firstPage(project, env)
    /\ nextUrl = ""
    /\ getResponse = EmptyGet
    /\ postResponse = EmptyPost
    /\ flags = <<>>
    /\ inflight = <<>>
    /\ err = FALSE
    /\ mainFlags = <<>>
    /\ stdout = <<>>
    /\ trace = <<>>
    /\ pages = <<>>
    /\ retrieved = <<>>

(* ---------------- GetFlags ---------------- *)

\* cli.get up to client.Do: the request leaves
SendGet ==
    /\ pc = "get"
    /\ LET req == [method |-> "GET", url |-> url, body |-> <<>>]
       IN  /\ inflight' = Append(inflight, req)
           /\ trace' = Append(trace, req)
    /\ getResponse' = EmptyGet
    /\ postResponse' = EmptyPost
    /\ pc' = "get_wait"
    /\ UNCHANGED <<cfg, now, url, nextUrl, flags, err, mainFlags, stdout, pages, retrieved>>

\* cli.get returns nil: the page, one of bodies, is decoded and nextUrl is
\* taken from it
RecvGetFrom(bodies) ==
    /\ pc = "get_wait"
    /\ RoundTrip < Timeout
    /\ now + RoundTrip < ctxDeadline
    /\ \E r \in bodies :
          /\ getResponse' = r
          /\ nextUrl' = r.Next
          /\ pages' = Append(pages, r)
    /\ now' = now + RoundTrip
    /\ inflight' = <<>>
    /\ pc' = "post"
    /\ UNCHANGED <<cfg, url, postResponse, flags, err, mainFlags, stdout, trace, retrieved>>

ReturnError_Partial ==
    /\ err' = TRUE
    /\ mainFlags' = flags
    /\ retrieved' = flags
    /\ pc' = "returned"

\* the server answers with pages that keep the run within MaxFlags records
RecvGet == RecvGetFrom(GetResponses(MaxFlags - Len(flags)))

\* GetFlags returns (nil, err)
ReturnError ==
    /\ err' = TRUE
    /\ mainFlags' = <<>>
    /\ retrieved' = <<>>
    /\ pc' = "returned"

\* nothing ends the wait for an answer that does not come
Fail_WaitsOn == UNCHANGED vars

\* a request in flight fails: a transport or decode error after a round trip,
\* the client's timeout, or the context's deadline, whichever comes first
Fail ==
    /\ \E d \in {RoundTrip, Timeout} : now' = Min(now + d, ctxDeadline)
    /\ inflight' = <<>>
    /\ ReturnError
    /\ UNCHANGED <<cfg, url, nextUrl, getResponse, postResponse, flags, stdout, trace, pages>>

FailGet ==
    /\ pc = "get_wait"
    /\ Fail

\* cli.post up to client.Do: the status query for the page's keys leaves
SendPost ==
    /\ pc = "post"
    /\ LET req == [method |-> "POST", url |-> queryUrl(project),
                   body |-> QueryBody(getResponse, env)]
       IN  /\ inflight' = Append(inflight, req)
           /\ trace' = Append(trace, req)
    /\ pc' = "post_wait"
    /\ UNCHANGED <<cfg, now, url, nextUrl, getResponse, postResponse, flags, err,
                   mainFlags, stdout, pages, retrieved>>

\* the loop's post statement and its condition: url = nextUrl; url != ""
LoopAgain(u) == u /= ""

\* cli.post returns nil: the page's records are appended, and the loop either
\* goes on to the next link or GetFlags returns (flags, nil)
RecvPost ==
    /\ pc = "post_wait"
    /\ RoundTrip < Timeout
    /\ now + RoundTrip < ctxDeadline
    /\ \E r \in PostResponses({getResponse.Items[i].key : i \in 1..Len(getResponse.Items)}) :
          /\ postResponse' = r
          /\ flags' = AppendFlags(flags, BuildFlags(getResponse, r, env))
    /\ now' = now + RoundTrip
    /\ inflight' = <<>>
    /\ url' = nextUrl
    /\ IF LoopAgain(nextUrl)
       THEN /\ pc' = "get"
            /\ UNCHANGED <<err, mainFlags, retrieved>>
       ELSE /\ pc' = "returned"
            /\ err' = FALSE
            /\ mainFlags' = flags'
            /\ retrieved' = flags'
    /\ UNCHANGED <<cfg, nextUrl, getResponse, stdout, trace, pages>>

FailPost ==
    /\ pc = "post_wait"
    /\ Fail

(* ---------------- main ---------------- *)

\* panic(fmt.Errorf("failed to get flags: %w", err))
Panic ==
    /\ pc = "returned"
    /\ err
    /\ pc' = "panicked"
    /\ UNCHANGED <<cfg, now, url, nextUrl, getResponse, postResponse, flags, inflight,
                   err, mainFlags, stdout, trace, pages, retrieved>>

Keep_NoCreationTest(f, c, clk) ==
    /\ LastModifiedMoreThan(f, c.threshold, clk)
    /\ (f.Temporary \/ c.withPermanent)

\* the three tests of the filter loop
Keep(f, c, clk) ==
    /\ CreationDateMoreThan(f, c.threshold, clk)
    /\ LastModifiedMoreThan(f, c.threshold, clk)
    /\ (f.Temporary \/ c.withPermanent)

\* the filter loop
FilterFlags(fs, c, clk) == SelectSeq(fs, LAMBDA f : Keep(f, c, clk))

Filter ==
    /\ pc = "returned"
    /\ ~err
    /\ mainFlags' = FilterFlags(mainFlags, cfg, now)
    /\ pc' = "filtered"
    /\ UNCHANGED <<cfg, now, url, nextUrl, getResponse, postResponse, flags, inflight,
                   err, stdout, trace, pages, retrieved>>

IndexOf(s, x) == CHOOSE i \in 1..Len(s) : s[i] = x

\* a < b on the strings of the model
StringLess(a, b) == IndexOf(EmailOrder, a) < IndexOf(EmailOrder, b)

Less_NoActivity(fi, fj, threshold, clk) ==
    IF fi.MaintainerEmail /= fj.MaintainerEmail
    THEN StringLess(fi.MaintainerEmail, fj.MaintainerEmail)
    ELSE UnixSeconds(fi.CreationDate) < UnixSeconds(fj.CreationDate)

\* the comparison handed to sort.Slice
Less(fi, fj, threshold, clk) ==
    IF fi.MaintainerEmail /= fj.MaintainerEmail
    THEN StringLess(fi.MaintainerEmail, fj.MaintainerEmail)
    ELSE LET inactivei == LastRequestedMoreThan(fi, threshold, clk)
             inactivej == LastRequestedMoreThan(fj, threshold, clk)
         IN  IF inactivei /= inactivej
             THEN inactivei
             ELSE UnixSeconds(fi.CreationDate) < UnixSeconds(fj.CreationDate)

Bijections(n) == {p \in [1..n -> 1..n] : \A i, j \in 1..n : p[i] = p[j] => i = j}

\* sort.Slice: some rearrangement of fs in which no element is less than one
\* before it; the order of elements neither of which is less than the other
\* is not specified
SortSlice(fs, threshold, clk) ==
    { [i \in 1..Len(fs) |-> fs[p[i]]] : p \in
        { q \in Bijections(Len(fs)) :
            \A i, j \in 1..Len(fs) :
                i < j => ~Less(fs[q[j]], fs[q[i]], threshold, clk) } }

Sort ==
    /\ pc = "filtered"
    /\ mainFlags' \in SortSlice(mainFlags, cfg.threshold, now)
    /\ pc' = "sorted"
    /\ UNCHANGED <<cfg, now, url, nextUrl, getResponse, postResponse, flags, inflight,
                   err, stdout, trace, pages, retrieved>>

\* the closure args of main
args(f, c, clk) ==
    << f.Key,
       f.MaintainerEmail,
       CreationDateAgo(f, clk),
       LastModifiedAgo(f, clk),
       LastRequestedAgo(f, clk),
       GetStatus(f, c.threshold, clk),
       GetTemporary(f),
       host \o "/" \o project \o "/" \o env \o "/features/" \o f.Key >>

Literal(text) == [sep |-> "", cols |-> <<text>>]

Rows(fs, c, clk, sep) == [i \in 1..Len(fs) |-> [sep |-> sep, cols |-> args(fs[i], c, clk)]]

\* the switch on format: a line is its columns and what separates them
Report(fs, c, clk) ==
    CASE c.format = "markdown" ->
           << Literal("KEY | MAINTAINER | CREATION DATE | LAST MODIFIED | LAST REQUESTED | STATUS | TEMPORARY | LINK "),
              Literal("----+------------+---------------+---------------+----------------+--------+-----------+------") >>
           \o Rows(fs, c, clk, " | ")
      [] c.format = "csv" ->
           << Literal("KEY,MAINTAINER,CREATION DATE,LAST MODIFIED,LAST REQUESTED,STATUS,TEMPORARY,LINK") >>
           \o Rows(fs, c, clk, ",")
      [] OTHER ->
           << [sep |-> "\t", cols |-> <<"KEY", "MAINTAINER", "CREATION DATE", "LAST MODIFIED",
                                        "LAST REQUESTED", "STATUS", "TEMPORARY", "LINK">>] >>
           \o Rows(fs, c, clk, "\t")

Render ==
    /\ pc = "sorted"
    /\ stdout' = Report(mainFlags, cfg, now)
    /\ pc' = "done"
    /\ UNCHANGED <<cfg, now, url, nextUrl, getResponse, postResponse, flags, inflight,
                   err, mainFlags, trace, pages, retrieved>>

Next ==
    \/ SendGet
    \/ RecvGet
    \/ FailGet
    \/ SendPost
    \/ RecvPost
    \/ FailPost
    \/ Panic
    \/ Filter
    \/ Sort
    \/ Render

Spec == Init /\ [][Next]_vars


(* ======================= properties ======================= *)

\* GetFlags has returned (flags, nil) to main
Succeeded == pc \in {"returned", "filtered", "sorted", "done"} /\ ~err

RECURSIVE PageItems(_)
\* the items of a sequence of pages, page after page
PageItems(ps) == IF ps = <<>> THEN <<>> ELSE Head(ps).Items \o PageItems(Tail(ps))

\* C1: when every GET and POST of a run succeeded and the last page carried no
\* next link, GetFlags returned one Flag record per page item, in the order
\* page 1's items, then page 2's, ..., then page N's.
C1_FlagsAreThePagesInOrder ==
    Succeeded =>
        LET items == PageItems(pages)
        IN  /\ Len(retrieved) = Len(items)
            /\ \A i \in 1..Len(items) :
                  /\ retrieved[i].Key = items[i].key
                  /\ retrieved[i].Temporary = items[i].temporary
                  /\ retrieved[i].CreationDate.ms = items[i].creationDate

\* three pages, the middle one empty, two different items on the others
C1_Witness ==
    /\ Succeeded
    /\ Len(pages) = 3
    /\ Len(pages[1].Items) = 1
    /\ Len(pages[2].Items) = 0
    /\ Len(pages[3].Items) = 1
    /\ pages[1].Items[1].key /= pages[3].Items[1].key
    /\ Len(retrieved) = 2

\* the requests a run has sent for its first n pages alternate GET, POST
PostsSent == Len(SelectSeq(trace, LAMBDA r : r.method = "POST"))

\* C2: the requests alternate GET(page i), POST(status query of page i),
\* GET(page i+1), ...; there is one POST per decoded page (an empty page too),
\* asking for exactly that page's keys in page order and for [env]; it leaves
\* after the page's GET returned and before the next GET; at most one request
\* is in flight.
C2_OneQueryPerPage ==
    /\ Len(inflight) <= 1
    /\ inflight /= <<>> => inflight[1] = trace[Len(trace)]
    /\ \A k \in 1..Len(trace) :
          IF k % 2 = 1
          THEN /\ trace[k].method = "GET"
               /\ trace[k].url = IF k = 1 THEN firstPage(project, env)
                                 ELSE pages[(k - 1) \div 2].Next
               /\ (k - 1) \div 2 <= Len(pages)
          ELSE /\ trace[k].method = "POST"
               /\ trace[k].url = queryUrl(project)
               /\ k \div 2 <= Len(pages)
               /\ trace[k].body.environmentKeys = <<env>>
               /\ Len(trace[k].body.flagKeys) = Len(pages[k \div 2].Items)
               /\ \A i \in 1..Len(pages[k \div 2].Items) :
                     trace[k].body.flagKeys[i] = pages[k \div 2].Items[i].key
    /\ PostsSent = IF pc = "post" THEN Len(pages) - 1 ELSE Len(pages)

\* a query for an empty page, then the next page's GET and a query for its two keys
C2_Witness ==
    /\ Len(trace) = 4
    /\ trace[2].body.flagKeys = <<>>
    /\ Len(trace[4].body.flagKeys) = 2
    /\ trace[4].body.flagKeys[1] /= trace[4].body.flagKeys[2]
    /\ inflight /= <<>>

\* C3: once a GET or a POST has failed, no further request leaves, GetFlags
\* has returned the error and no flag list, and the run ends in the panic
\* with nothing written to standard output.
C3_FailureAbortsWithNothing ==
    /\ [](err => /\ mainFlags = <<>>
                 /\ stdout = <<>>
                 /\ inflight = <<>>
                 /\ pc \in {"returned", "panicked"})
    /\ [](pc = "panicked" => err)
    /\ [][err => /\ trace' = trace
                 /\ pages' = pages
                 /\ stdout' = <<>>
                 /\ mainFlags' = <<>>
                 /\ pc' = "panicked"]_vars

\* the second page's query failed after the first page's records were accumulated
C3_Witness ==
    /\ pc = "panicked"
    /\ Len(trace) = 4
    /\ Len(pages) = 2
    /\ flags /= <<>>
    /\ mainFlags = <<>>
    /\ stdout = <<>>

\* the indices of fs whose flags pass all three tests, written out
KeptIndices(fs) ==
    { i \in 1..Len(fs) :
        /\ (fs[i].CreationDate.isZero \/ now - fs[i].CreationDate.ms > cfg.threshold)
        /\ (fs[i].LastModified.isZero \/ now - fs[i].LastModified.ms > cfg.threshold)
        /\ (fs[i].Temporary \/ cfg.withPermanent) }

\* out is fs restricted to the indices in K, in the order of fs
IsRestriction(out, fs, K) ==
    /\ Len(out) = Cardinality(K)
    /\ \E f \in [1..Len(out) -> K] :
          /\ \A a, b \in 1..Len(out) : a < b => f[a] < f[b]
          /\ \A a \in 1..Len(out) : out[a] = fs[f[a]]

\* C4: the filter keeps a retrieved flag exactly when its creation instant is
\* more than threshold ago (or unset), its last-modified instant is more than
\* threshold ago (or unset), and it is temporary or -with-permanent is set;
\* the kept flags stay in retrieved order and no other flag is in the report.
C4_FilterKeepsExactlyTheStale ==
    /\ pc = "filtered" => IsRestriction(mainFlags, retrieved, KeptIndices(retrieved))
    /\ pc \in {"filtered", "sorted", "done"} =>
          {mainFlags[i] : i \in 1..Len(mainFlags)}
              = {retrieved[i] : i \in KeptIndices(retrieved)}

\* two flags retrieved, the first dropped for its fresh creation date, the second kept
C4_Witness ==
    /\ pc = "filtered"
    /\ Len(retrieved) = 2
    /\ mainFlags = <<retrieved[2]>>
    /\ retrieved[1].Temporary
    /\ now - retrieved[1].CreationDate.ms <= cfg.threshold
    /\ now - retrieved[1].LastModified.ms > cfg.threshold

\* the sort has run
Sorted == pc \in {"sorted", "done"}

\* the keys of the order, written out
Inactive(f) == f.LastRequested.isZero \/ now - f.LastRequested.ms > cfg.threshold

EmailBefore(a, b) ==
    \E i, j \in 1..Len(EmailOrder) : i < j /\ EmailOrder[i] = a /\ EmailOrder[j] = b

\* by maintainer first, inactive before active within one maintainer
OrderedByMaintainerThenActivity(fs) ==
    \A i, j \in 1..Len(fs) :
        i < j =>
            /\ fs[i].MaintainerEmail /= fs[j].MaintainerEmail
                  => EmailBefore(fs[i].MaintainerEmail, fs[j].MaintainerEmail)
            /\ (fs[i].MaintainerEmail = fs[j].MaintainerEmail /\ Inactive(fs[j]))
                  => Inactive(fs[i])

SameMaintainerAndActivity(f, g) ==
    f.MaintainerEmail = g.MaintainerEmail /\ Inactive(f) = Inactive(g)

\* out rearranges in, and elements with equal keys keep the order they had in in
StableRearrangement(out, in, EqualKeys(_, _)) ==
    /\ Len(out) = Len(in)
    /\ \E p \in Bijections(Len(in)) :
          /\ \A i \in 1..Len(in) : out[i] = in[p[i]]
          /\ \A i, j \in 1..Len(in) :
                (i < j /\ EqualKeys(out[i], out[j])) => p[i] < p[j]

IsRearrangement(out, in) == StableRearrangement(out, in, LAMBDA f, g : FALSE)

\* the sequence handed to the sort
SortInput == FilterFlags(retrieved, cfg, now)

\* C5 as stated: by maintainer, then inactive first, then by ascending
\* creation timestamp, and flags equal on all three keys keep their input order.
C5_StableByCreationTimestamp ==
    Sorted =>
        /\ OrderedByMaintainerThenActivity(mainFlags)
        /\ \A i, j \in 1..Len(mainFlags) :
              (i < j /\ SameMaintainerAndActivity(mainFlags[i], mainFlags[j]))
                  => mainFlags[i].CreationDate.ms <= mainFlags[j].CreationDate.ms
        /\ StableRearrangement(mainFlags, SortInput,
              LAMBDA f, g : /\ SameMaintainerAndActivity(f, g)
                            /\ f.CreationDate.ms = g.CreationDate.ms)

\* C5, amended: the sorted sequence rearranges the filtered one; a smaller
\* maintainer email comes first; within one maintainer inactive flags come
\* before active ones; with maintainer and activity equal the order is by
\* ascending whole second of the creation timestamp.  Flags equal on these
\* three keys come in an unspecified order.
C5_OrderedBySecondOfCreation ==
    Sorted =>
        /\ IsRearrangement(mainFlags, SortInput)
        /\ OrderedByMaintainerThenActivity(mainFlags)
        /\ \A i, j \in 1..Len(mainFlags) :
              (i < j /\ SameMaintainerAndActivity(mainFlags[i], mainFlags[j]))
                  => mainFlags[i].CreationDate.ms \div 1000
                        <= mainFlags[j].CreationDate.ms \div 1000

\* two flags of one maintainer and one activity created within the same
\* second, sorted with the later one first
C5_Witness ==
    /\ pc = "sorted"
    /\ Len(mainFlags) = 2
    /\ SameMaintainerAndActivity(mainFlags[1], mainFlags[2])
    /\ mainFlags[1].CreationDate.ms > mainFlags[2].CreationDate.ms
    /\ mainFlags[1].CreationDate.ms \div 1000 = mainFlags[2].CreationDate.ms \div 1000

\* the lines of the report before its first row
HeaderLines == IF cfg.format = "markdown" THEN 2 ELSE 1

\* C6: the status a row shows is "inactive" exactly when the flag was never
\* requested or the time since its last request is strictly greater than the
\* threshold, and "inuse" otherwise, so also when it equals the threshold.
C6_StatusIsStrictlyOlderThanThreshold ==
    pc = "done" =>
        /\ Len(stdout) = HeaderLines + Len(mainFlags)
        /\ \A i \in 1..Len(mainFlags) :
              LET f == mainFlags[i]
                  status == stdout[HeaderLines + i].cols[6]
              IN  /\ status \in {"inactive", "inuse"}
                  /\ status = "inactive" <=>
                        (f.LastRequested.isZero \/ now - f.LastRequested.ms > cfg.threshold)

\* a row "inuse" for a flag requested exactly threshold ago, beside one never requested
C6_Witness ==
    /\ pc = "done"
    /\ Len(mainFlags) = 2
    /\ \E i, j \in 1..2 :
          /\ ~mainFlags[i].LastRequested.isZero
          /\ now - mainFlags[i].LastRequested.ms = cfg.threshold
          /\ stdout[HeaderLines + i].cols[6] = "inuse"
          /\ mainFlags[j].LastRequested.isZero
          /\ stdout[HeaderLines + j].cols[6] = "inactive"

\* the records of the page decoded last are in flags
LastPageBuilt ==
    /\ pages /= <<>>
    /\ pc = "get" \/ Succeeded

\* what the status answer r says about key k in environment e
Answered(r, k, e) ==
    {r.Items[j].environments[e] :
        j \in {x \in 1..Len(r.Items) : r.Items[x].key = k /\ e \in DOMAIN r.Items[x].environments}}

\* C7: a record built from a page item has the item's key and temporary
\* value, the item's email or "unknown" when that is empty, and the
\* last-requested instant the same page's status answer gives for its key in
\* the requested environment, or the unset instant when the answer has no
\* item for the key or the item has no entry for the environment.
C7_RecordComesFromItsOwnPage ==
    LastPageBuilt =>
        LET n == Len(getResponse.Items)
            base == Len(flags) - n
        IN  /\ base >= 0
            /\ \A i \in 1..n :
                  LET f == flags[base + i]
                      item == getResponse.Items[i]
                      said == Answered(postResponse, item.key, env)
                  IN  /\ f.Key = item.key
                      /\ f.Temporary = item.temporary
                      /\ f.MaintainerEmail = (IF item.email = "" THEN "unknown" ELSE item.email)
                      /\ f.MaintainerEmail = "unknown" <=> item.email = ""
                      /\ IF said = {} THEN f.LastRequested.isZero
                         ELSE ~f.LastRequested.isZero /\ f.LastRequested \in said

\* the same key on two pages: answered on the first page, known to the second
\* page's answer only in another environment
C7_Witness ==
    /\ pc = "get"
    /\ Len(pages) = 2
    /\ Len(flags) = 2
    /\ flags[1].Key = flags[2].Key
    /\ ~flags[1].LastRequested.isZero
    /\ flags[2].LastRequested.isZero
    /\ flags[2].MaintainerEmail = "unknown"
    /\ Len(postResponse.Items) = 1
    /\ postResponse.Items[1].key = flags[2].Key
    /\ DOMAIN postResponse.Items[1].environments = {"staging"}

\* C8: a flag built from a creationDate of 0, or from an item with no
\* lastModified entry for the requested environment, counts as infinitely old:
\* CreationDateMoreThan / LastModifiedMoreThan holds for every threshold.
C8_UnsetIsInfinitelyOld ==
    Succeeded =>
        LET items == PageItems(pages)
        IN  \A i \in 1..Len(retrieved) :
                /\ items[i].creationDate = 0
                      => CreationDateMoreThan(retrieved[i], cfg.threshold, now)
                /\ env \notin DOMAIN items[i].environments
                      => LastModifiedMoreThan(retrieved[i], cfg.threshold, now)

CsvHeader == "KEY,MAINTAINER,CREATION DATE,LAST MODIFIED,LAST REQUESTED,STATUS,TEMPORARY,LINK"

\* the indices of the retrieved flags that pass the two age tests
AgedIndices(fs) ==
    { i \in 1..Len(fs) :
        /\ (fs[i].CreationDate.isZero \/ now - fs[i].CreationDate.ms > cfg.threshold)
        /\ (fs[i].LastModified.isZero \/ now - fs[i].LastModified.ms > cfg.threshold) }

\* the csv report is the header and one row per retrieved flag with index in K
CsvReportOf(K) ==
    LET items == PageItems(pages)
        n == Len(stdout) - 1
    IN  /\ Len(stdout) >= 1
        /\ stdout[1] = [sep |-> "", cols |-> <<CsvHeader>>]
        /\ n = Cardinality(K)
        /\ \E p \in [1..n -> K] :
              /\ \A a, b \in 1..n : p[a] = p[b] => a = b
              /\ \A a \in 1..n :
                    LET row == stdout[1 + a]
                    IN  /\ row.sep = ","
                        /\ Len(row.cols) = 8
                        /\ row.cols[1] = items[p[a]].key
                        /\ row.cols[2] = (IF items[p[a]].email = "" THEN "unknown"
                                          ELSE items[p[a]].email)
                        /\ row.cols[8] = host \o "/" \o project \o "/" \o env
                                              \o "/features/" \o items[p[a]].key
        /\ \A a, b \in 1..n :
              (a < b /\ stdout[1 + a].cols[2] /= stdout[1 + b].cols[2])
                  => EmailBefore(stdout[1 + a].cols[2], stdout[1 + b].cols[2])

\* C9 as stated: with -format csv the output is the header and exactly one
\* row per retrieved flag that passes the two age filters.
C9_CsvRowPerAgedFlag ==
    (pc = "done" /\ cfg.format = "csv") => CsvReportOf(AgedIndices(retrieved))

\* C9, amended: with -format csv the output is the header and exactly one row
\* per retrieved flag that passes the two age filters and is temporary or
\* shown because -with-permanent is set, ordered by maintainer; an empty
\* source email shows as "unknown" and the link is
\* <host>/<project>/<env>/features/<key>.
C9_CsvRowPerKeptFlag ==
    (pc = "done" /\ cfg.format = "csv") => CsvReportOf(KeptIndices(retrieved))

\* a permanent flag old enough is left out, a flag with an empty email is shown
C9_Witness ==
    /\ pc = "done"
    /\ cfg.format = "csv"
    /\ ~cfg.withPermanent
    /\ Len(retrieved) = 2
    /\ AgedIndices(retrieved) = {1, 2}
    /\ Len(stdout) = 2
    /\ stdout[2].cols[2] = "unknown"
    /\ PageItems(pages)[2].email = ""

\* the run is over: the report is written or main has panicked
Finished == pc \in {"done", "panicked"}

\* the scheduler runs the one thread of control whenever it can take a step,
\* and every awaited response or failure arrives
\* the server answers with pages of at most one item for as long as it likes
RecvSmallGet == RecvGetFrom(SmallGetResponses)

LiveNext ==
    \/ SendGet
    \/ RecvSmallGet
    \/ FailGet
    \/ SendPost
    \/ RecvPost
    \/ FailPost
    \/ Panic
    \/ Filter
    \/ Sort
    \/ Render

LiveSpec == Init /\ [][LiveNext]_vars /\ WF_vars(LiveNext)

\* C10: every run finishes.  GetFlags returns the flag list after the first
\* page whose next link is empty and goes on fetching only while the link is
\* not empty; when the links never end, the request in flight when the
\* deadline of the context expires fails and the run aborts with the error
\* and no report.
C10_EveryRunFinishes ==
    /\ <>Finished
    /\ [](Succeeded =>
            /\ pages /= <<>>
            /\ \A k \in 1..Len(pages) : pages[k].Next = "" <=> k = Len(pages))
    /\ [](pc \in {"get", "get_wait"} => \A k \in 1..Len(pages) : pages[k].Next /= "")
    /\ [](now >= ctxDeadline => err /\ stdout = <<>> /\ mainFlags = <<>>)
    /\ [](now <= ctxDeadline)

\* every page linked on, and the query in flight at the deadline failed
C10_Witness ==
    /\ pc = "panicked"
    /\ now = ctxDeadline
    /\ Len(pages) >= 3
    /\ \A k \in 1..Len(pages) : pages[k].Next /= ""
    /\ pages[2].Next = pages[3].Next

====
